---- MODULE Spec2Model ----
(***************************************************************************)
(* WelcomeDialog.vue: a controlled welcome / disclaimer dialog.            *)
(*                                                                         *)
(* The component owns no state.  It receives the prop modelValue, hands    *)
(* the computed mirror `visible` to the host el-dialog through v-model,    *)
(* and emits 'update:modelValue' from three places: the setter of the      *)
(* mirror, handleConfirm (click of the confirm button) and handleClosed    *)
(* (the host's `closed` event).                                            *)
(*                                                                         *)
(* The host el-dialog and the owner are the environment of the component:  *)
(* the host keeps its own visibility, which follows the value it is bound  *)
(* to, runs a leave transition when it closes and, when the transition     *)
(* ends, fires `closed` and writes false to its v-model; the owner holds   *)
(* the flag and applies every notification to it.                          *)
(***************************************************************************)
EXTENDS Naturals, Sequences, FiniteSets

\* longest notification log explored
MaxEmits == 6

VARIABLES
    modelValue,   \* props.modelValue: the owner's flag as the component sees it
    phase,        \* the host dialog: "shown", "leaving" (close transition) or "hidden"
    emitted,      \* history: the 'update:modelValue' notifications, oldest first
    written,      \* history: the values written to the mirror `visible`
    op,           \* history: the operation of the last step
    openAtOp      \* history: modelValue when the last step began

vars == <<modelValue, phase, emitted, written, op, openAtOp>>

Phases == {"shown", "leaving", "hidden"}
Ops == {"init", "ownerSet", "handleConfirm", "closeGesture", "closed"}
Sources == {"visible", "handleConfirm", "handleClosed"}
Notification == [src : Sources, val : BOOLEAN]

(***************************************************************************)
(* The component                                                           *)
(***************************************************************************)

\* emit('update:modelValue', val); src records the emitting place
emit(src, val) == <<[src |-> src, val |-> val]>>

\* visible.get
visibleGet(mv) == mv

visibleSet_negated(val) == emit("visible", ~val)

visibleSet_twice(val) == emit("visible", val) \o emit("visible", val)

\* visible.set
visibleSet(val) == emit("visible", val)

handleConfirm_open == emit("handleConfirm", TRUE)

handleConfirm_twice == emit("handleConfirm", FALSE) \o emit("handleConfirm", FALSE)

\* function handleConfirm()
handleConfirm == emit("handleConfirm", FALSE)

handleClosed_twice == emit("handleClosed", FALSE) \o emit("handleClosed", FALSE)

\* function handleClosed()
handleClosed == emit("handleClosed", FALSE)

onModelValueChange_echo(val) == emit("visible", val)

\* what the component emits when the prop changes: the script has no watcher
\* and the getter of the mirror has no effect
onModelValueChange(val) == <<>>

(***************************************************************************)
(* The template: the props and listeners given to the host el-dialog       *)
(***************************************************************************)

\* :close-on-click-modal="false"
closeOnClickModal == FALSE

\* close-on-press-escape is not passed: the host's default applies
closeOnPressEscape == TRUE

\* .el-dialog__header { display: none }: the header's close button is not shown
headerDisplayed == FALSE

Gestures == {"clickModal", "pressEscape", "headerClose"}

\* the implicit close gestures the host accepts
gestureEnabled(g) ==
    CASE g = "clickModal"  -> closeOnClickModal
      [] g = "pressEscape" -> closeOnPressEscape
      [] g = "headerClose" -> headerDisplayed

\* the confirm button is part of the dialog content: it is in the page while
\* the host shows the content, the leave transition included
confirmReachable(ph) == ph \in {"shown", "leaving"}

(***************************************************************************)
(* The host el-dialog                                                      *)
(***************************************************************************)

\* the host on mount: shown iff the bound value is true
hostMount(val) == IF val THEN "shown" ELSE "hidden"

\* the host's watcher on the bound value: true opens (a running leave
\* transition is cancelled), false closes a shown dialog
hostWatch(ph, oldVal, newVal) ==
    IF newVal = oldVal THEN ph
    ELSE IF newVal THEN "shown"
    ELSE IF ph = "shown" THEN "leaving"
    ELSE ph

\* the value the host writes to its v-model after the leave transition
hostModelWrite == FALSE

(***************************************************************************)
(* The owner                                                               *)
(***************************************************************************)

\* the owner applies every notification to its flag, in order
ownerApply(flag, notes) ==
    IF notes = <<>> THEN flag ELSE notes[Len(notes)].val

(***************************************************************************)
(* Actions                                                                 *)
(***************************************************************************)

Init ==
    /\ modelValue \in BOOLEAN
    /\ phase = hostMount(visibleGet(modelValue))
    /\ emitted = onModelValueChange(modelValue)
    /\ written = <<>>
    /\ op = "init"
    /\ openAtOp = modelValue

\* the notifications `notes` reach the owner; the re-render hands the new
\* value of the mirror to the host, which was left in phase ph by the step
Deliver(notes, ph) ==
    /\ Len(emitted) + Len(notes) <= MaxEmits
    /\ emitted' = emitted \o notes
    /\ modelValue' = ownerApply(modelValue, notes)
    /\ phase' = hostWatch(ph, visibleGet(modelValue), visibleGet(modelValue'))
    /\ openAtOp' = modelValue

\* the owner changes its flag
OwnerSet ==
    \E v \in BOOLEAN :
        /\ v # modelValue
        /\ modelValue' = v
        /\ Len(emitted) + Len(onModelValueChange(v)) <= MaxEmits
        /\ emitted' = emitted \o onModelValueChange(v)
        /\ phase' = hostWatch(phase, visibleGet(modelValue), visibleGet(v))
        /\ openAtOp' = modelValue
        /\ op' = "ownerSet"
        /\ UNCHANGED written

\* the user clicks the confirm button
ClickConfirm ==
    /\ confirmReachable(phase)
    /\ Deliver(handleConfirm, phase)
    /\ op' = "handleConfirm"
    /\ UNCHANGED written

\* the user makes an implicit close gesture the host accepts: the host hides
\* itself and starts the leave transition; nothing is emitted yet
HostCloseGesture ==
    \E g \in Gestures :
        /\ gestureEnabled(g)
        /\ phase = "shown"
        /\ phase' = "leaving"
        /\ openAtOp' = modelValue
        /\ op' = "closeGesture"
        /\ UNCHANGED <<modelValue, emitted, written>>

\* the leave transition ends: the host fires `closed` (handleClosed) and then
\* writes to its v-model (the setter of the mirror)
AfterLeave ==
    /\ phase = "leaving"
    /\ Deliver(handleClosed \o visibleSet(hostModelWrite), "hidden")
    /\ written' = Append(written, hostModelWrite)
    /\ op' = "closed"

Next ==
    \/ OwnerSet
    \/ ClickConfirm
    \/ HostCloseGesture
    \/ AfterLeave

Spec == Init /\ [][Next]_vars

(***************************************************************************)
(* Derived notions                                                         *)
(***************************************************************************)

\* the dialog is presented (the leave transition is decoration)
Shown == phase = "shown"

\* the entries the last step added to the log
NewNotes == SubSeq(emitted', Len(emitted) + 1, Len(emitted'))

From(notes, src) == SelectSeq(notes, LAMBDA n : n.src = src)

TypeOK ==
    /\ modelValue \in BOOLEAN
    /\ phase \in Phases
    /\ emitted \in Seq(Notification)
    /\ Len(emitted) <= MaxEmits
    /\ written \in Seq(BOOLEAN)
    /\ op \in Ops
    /\ openAtOp \in BOOLEAN

(***************************************************************************)
(* Properties                                                              *)
(***************************************************************************)

Vals(notes) == [i \in 1..Len(notes) |-> notes[i].val]

\* C1: in every reachable state the dialog is Shown if and only if
\* modelValue is true.
C1_ShownIffOpen == Shown <=> modelValue

\* C2: every invocation of handleConfirm adds exactly one notification to
\* the log, and its value is false, whatever modelValue was.
C2_ConfirmEmitsOneFalse ==
    [][op' = "handleConfirm" =>
          /\ Len(NewNotes) = 1
          /\ NewNotes[1].val = FALSE]_vars

\* handleConfirm has run twice and the second time modelValue was false
C2_Witness ==
    /\ op = "handleConfirm"
    /\ ~openAtOp
    /\ Len(From(emitted, "handleConfirm")) >= 2
    /\ emitted[Len(emitted)] = [src |-> "handleConfirm", val |-> FALSE]

\* C3: every firing of the `closed` hook makes handleClosed emit exactly one
\* notification, and its value is false, also when no acknowledgement
\* preceded it.
C3_ClosedEmitsOneFalse ==
    [][op' = "closed" =>
          /\ Len(From(NewNotes, "handleClosed")) = 1
          /\ From(NewNotes, "handleClosed")[1].val = FALSE]_vars

\* the hook has fired and handleConfirm never ran
C3_Witness ==
    /\ op = "closed"
    /\ From(emitted, "handleConfirm") = <<>>
    /\ Len(From(emitted, "handleClosed")) = 1

\* C4: every notification carries false, and the dialog goes from not Shown
\* to Shown only in a step in which the owner sets modelValue to true.
C4_NeverOpensItself ==
    /\ [](\A i \in 1..Len(emitted) : emitted[i].val = FALSE)
    /\ [][(~Shown /\ Shown') => (op' = "ownerSet" /\ modelValue')]_vars

\* all three emit paths have run and the owner has shown the dialog again
C4_Witness ==
    /\ op = "ownerSet"
    /\ Shown
    /\ \A src \in Sources : From(emitted, src) # <<>>

\* C5: the only user interaction that takes the dialog out of Shown is the
\* acknowledgement action (the owner may also set modelValue to false).
C5_OnlyConfirmCloses ==
    [][(Shown /\ ~Shown') => op' \in {"handleConfirm", "ownerSet"}]_vars

\* C6: after handleConfirm or the `closed` hook the owner's flag is false
\* and the dialog is not Shown, and both stay so in every step that is not
\* the owner setting its flag.
C6_ClosedUntilOwnerOpens ==
    [][/\ op' \in {"handleConfirm", "closed"} => (~modelValue' /\ ~Shown')
       /\ (~modelValue /\ ~Shown /\ op' # "ownerSet") => (~modelValue' /\ ~Shown')]_vars

\* the dialog was acknowledged, its transition has ended, and it is hidden
\* with the flag false
C6_Witness ==
    /\ op = "closed"
    /\ ~openAtOp
    /\ From(emitted, "handleConfirm") # <<>>
    /\ ~modelValue
    /\ phase = "hidden"

\* C7: the initial render emits nothing, a step in which the owner changes
\* modelValue leaves the log unchanged, and the log changes only in a
\* handleConfirm step or a `closed` step.
C7_OwnerChangeEmitsNothing ==
    /\ [](op = "init" => emitted = <<>>)
    /\ [][/\ op' = "ownerSet" => emitted' = emitted
          /\ emitted' # emitted => op' \in {"handleConfirm", "closed"}]_vars

\* the owner has set modelValue from false to true after notifications
\* were emitted, and the dialog is Shown
C7_Witness ==
    /\ op = "ownerSet"
    /\ ~openAtOp
    /\ modelValue
    /\ Shown
    /\ emitted # <<>>

\* C8: a read of the mirror returns modelValue, every write of v to the
\* mirror emits exactly one notification carrying v, and the mirror is
\* written only in a handleConfirm step or a `closed` step.
C8_MirrorInSync ==
    /\ [](/\ visibleGet(modelValue) = modelValue
          /\ Vals(From(emitted, "visible")) = written)
    /\ [][written' # written => op' \in {"handleConfirm", "closed"}]_vars

\* the mirror has been written
C8_Witness ==
    /\ op = "closed"
    /\ written # <<>>
    /\ emitted[Len(emitted)] = [src |-> "visible", val |-> written[Len(written)]]

\* C9: handleConfirm is never invoked while modelValue is false.
C9_ConfirmOnlyWhileOpen == op = "handleConfirm" => openAtOp

\* C10: whenever the `closed` hook fires the owner's flag is already false,
\* so the notifications of the hook never change the flag.
C10_HookAfterFlagFalse == op = "closed" => ~openAtOp

====
